---- MODULE Spec2Model ----
(***************************************************************************)
(* Burn scanner (scripts/burn.js) and price reporter (scripts/price.js).   *)
(*                                                                         *)
(* Strings that the code inspects character by character (amount strings,  *)
(* formatted decimal strings) are sequences of one-character strings.      *)
(* BigInt values are unbounded integers.                                   *)
(***************************************************************************)
EXTENDS Integers, Sequences, FiniteSets, TLC

VARIABLES
    fn,            \* the pure-function call under examination (record)
    pc,            \* burn.js main: position of the async main / generator
    maxPages,      \* iterSignatures parameter (MAX_PAGES)
    mintDecimals,  \* main: const mintDecimals
    page,          \* iterSignatures: loop counter
    before,        \* iterSignatures: cursor
    out,           \* iterSignatures: current page
    idx,           \* iterSignatures: position of the for..of over out
    totalRaw,      \* main: running BigInt total
    result,        \* main: { count, totalUi, burns }
    burnJson,      \* data/burn.json: [exists, parses, content]
    exitCode,      \* burn.js process: "running", "exit 0" or "exit 1"
    ledgerPos,     \* ledger RPC: number of signatures served so far
    sigRequests,   \* ledger RPC: the cursor of each getSignaturesForAddress call
    pageLasts,     \* ledger RPC: the last signature of each page answered
    txRequests,    \* ledger RPC: the entry asked for by each getTransaction call
    txServed,      \* ledger RPC: what each getTransaction call came to
    rpcError,      \* ledger RPC: the request that failed, if any
    pricePc,       \* price.js main: position
    urlIdx,        \* getJupiterPriceUsd: index into urls
    attempt,       \* fetchJsonWithRetries: loop counter i
    priceUsd,      \* price.js main: let priceUsd
    burnTotalTokens, \* price.js main: const burnTotalTokens
    priceJson,     \* data/price.json: [exists, parses, content]
    prevPriceJson, \* data/price.json as the run found it
    priceExit,     \* price.js process: "running", "exit 0" or "exit 1"
    priceLog,      \* price feed: every request received, with its outcome
    disk,          \* data directory: path -> [exists, gen, len]
    writeFn,       \* the function that persists the snapshot
    writePc,       \* position of the writing process
    writeRun,      \* number of the run that is writing (generation of its JSON)
    observed       \* what a concurrent reader of the target has read so far

scanVars == <<pc, maxPages, mintDecimals, page, before, out, idx, totalRaw,
              result, burnJson, exitCode, ledgerPos, sigRequests, pageLasts,
              txRequests, txServed, rpcError>>
priceVars == <<pricePc, urlIdx, attempt, priceUsd, burnTotalTokens, priceJson,
               prevPriceJson, priceExit, priceLog>>
writeVars == <<disk, writeFn, writePc, writeRun, observed>>
vars == <<fn, scanVars, priceVars, writeVars>>

----------------------------------------------------------------------------
(* Bounds *)

MaxRaw == 25          \* raw amounts range over -MaxRaw..MaxRaw plus samples
MaxDecimals == 4      \* decimals of normalizeRawAmount range over 0..MaxDecimals
MaxFmtDecimals == 6   \* decimals of bigIntToDecimalString range over 0..MaxFmtDecimals

----------------------------------------------------------------------------
(* Values *)

Undefined == "undefined"
Null == "null"

RECURSIVE Pow10(_)
Pow10(k) == IF k <= 0 THEN 1 ELSE 10 * Pow10(k - 1)

Abs(x) == IF x < 0 THEN -x ELSE x

\* BigInt `/`: the quotient is truncated toward zero.
BigIntDivFloor(a, b) == a \div b
BigIntDiv(a, b) == IF a >= 0 THEN a \div b ELSE -((-a) \div b)

\* BigInt `%`: the remainder has the sign of the dividend.
BigIntRem(a, b) == a - b * BigIntDiv(a, b)

DigitChars == <<"0", "1", "2", "3", "4", "5", "6", "7", "8", "9">>

\* BigInt.prototype.toString() of a non-negative value.
RECURSIVE NatToString(_)
NatToString(n) ==
    IF n < 10 THEN <<DigitChars[n + 1]>>
    ELSE NatToString(n \div 10) \o <<DigitChars[(n % 10) + 1]>>

\* String.prototype.padStart(n, c)
PadStart(s, n, c) ==
    IF Len(s) >= n THEN s ELSE [i \in 1..(n - Len(s)) |-> c] \o s

\* String.prototype.replace(/0+$/, "")
RECURSIVE StripTrailingZeros(_)
StripTrailingZeros(s) ==
    IF s = <<>> \/ s[Len(s)] # "0" THEN s
    ELSE StripTrailingZeros(SubSeq(s, 1, Len(s) - 1))

IsDigit(c) == \E n \in 1..10 : DigitChars[n] = c

DigitValue(c) == CHOOSE n \in 0..9 : DigitChars[n + 1] = c

RECURSIVE DigitsValue(_)
DigitsValue(s) ==
    IF s = <<>> THEN 0
    ELSE 10 * DigitsValue(SubSeq(s, 1, Len(s) - 1)) + DigitValue(s[Len(s)])

AllDigits(s) == Len(s) >= 1 /\ \A i \in 1..Len(s) : IsDigit(s[i])

\* StringToBigInt trims white space first.
RECURSIVE TrimString(_)
TrimString(s) ==
    IF s = <<>> THEN s
    ELSE IF s[1] = " " THEN TrimString(Tail(s))
    ELSE IF s[Len(s)] = " " THEN TrimString(SubSeq(s, 1, Len(s) - 1))
    ELSE s

\* BigInt(string): the empty (or all-blank) string is 0n; an optionally
\* signed run of decimal digits is its value; anything else is a
\* SyntaxError (ok = FALSE).  The 0x/0o/0b literals are left out: no
\* amount string of the model contains a letter.
BigIntOfString(s) ==
    LET t == TrimString(s)
    IN  IF t = <<>> THEN [ok |-> TRUE, v |-> 0]
        ELSE IF AllDigits(t) THEN [ok |-> TRUE, v |-> DigitsValue(t)]
        ELSE IF Len(t) >= 2 /\ t[1] \in {"+", "-"} /\ AllDigits(Tail(t))
        THEN [ok |-> TRUE,
              v |-> IF t[1] = "-" THEN -DigitsValue(Tail(t)) ELSE DigitsValue(Tail(t))]
        ELSE [ok |-> FALSE, v |-> 0]

----------------------------------------------------------------------------
(* burn.js: normalizeRawAmount *)

normalizeRawAmountFloor(raw, fromDecimals, toDecimals) ==
    IF fromDecimals = toDecimals THEN raw
    ELSE IF fromDecimals < toDecimals
         THEN raw * Pow10(toDecimals - fromDecimals)
         ELSE BigIntDivFloor(raw, Pow10(fromDecimals - toDecimals))

normalizeRawAmountSwapped(raw, fromDecimals, toDecimals) ==
    IF fromDecimals = toDecimals THEN raw
    ELSE IF fromDecimals < toDecimals
         THEN BigIntDiv(raw, Pow10(toDecimals - fromDecimals))
         ELSE raw * Pow10(fromDecimals - toDecimals)

normalizeRawAmount(raw, fromDecimals, toDecimals) ==
    IF fromDecimals = toDecimals THEN raw
    ELSE IF fromDecimals < toDecimals
         THEN raw * Pow10(toDecimals - fromDecimals)
         ELSE BigIntDiv(raw, Pow10(fromDecimals - toDecimals))

----------------------------------------------------------------------------
(* burn.js: bigIntToDecimalString *)

bigIntToDecimalStringNoStrip(raw, decimals) ==
    LET neg == raw < 0
        v == IF neg THEN -raw ELSE raw
        base == Pow10(decimals)
        intPart == BigIntDiv(v, base)
        fracPart == BigIntRem(v, base)
        s0 == NatToString(intPart)
        frac == PadStart(NatToString(fracPart), decimals, "0")
        s == IF decimals > 0 /\ fracPart # 0 THEN s0 \o <<".">> \o frac ELSE s0
    IN  IF neg THEN <<"-">> \o s ELSE s

bigIntToDecimalString(raw, decimals) ==
    LET neg == raw < 0
        v == IF neg THEN -raw ELSE raw
        base == Pow10(decimals)
        intPart == BigIntDiv(v, base)
        fracPart == BigIntRem(v, base)
        s0 == NatToString(intPart)
        frac == StripTrailingZeros(PadStart(NatToString(fracPart), decimals, "0"))
        s == IF decimals > 0 /\ Len(frac) > 0 THEN s0 \o <<".">> \o frac ELSE s0
    IN  IF neg THEN <<"-">> \o s ELSE s

----------------------------------------------------------------------------
(* burn.js: findBurnEvents *)

BUMPER_MINT == "5bp5PwTyu4i1hGyQsRwRYqiR2CmxyHt2cPJGEbXEbonk"
OtherMint == "So11111111111111111111111111111111111111112"

\* One instruction of a jsonParsed transaction, as far as scan reads it:
\*   parsed       "missing" | "string" | "object"   (ix?.parsed)
\*   type         parsed.type
\*   info         "missing" | "object"              (parsed.info)
\*   mint         info.mint, or Undefined
\*   hasAmount    info.amount !== undefined;  amount = String(info.amount)
\*   hasTok       info.tokenAmount?.amount !== undefined;
\*                tokAmount = String(info.tokenAmount.amount)
\*   tokDecimals  "undefined", or Number(info.tokenAmount.decimals):
\*                [kind |-> "num", v |-> n] or [kind |-> "nan", v |-> 0]
NoDecimals == [kind |-> "undefined", v |-> 0]
NumDecimals(n) == [kind |-> "num", v |-> n]
NaNDecimals == [kind |-> "nan", v |-> 0]

\* One instruction's contribution to burns: the body of scan's for loop.
scanIxAnyMint(ix, mint, mintDec) ==
    IF ix.parsed # "object" THEN <<>>
    ELSE IF ix.type # "burn" /\ ix.type # "burnChecked" THEN <<>>
    ELSE LET rawStr == IF ix.hasTok THEN ix.tokAmount
                       ELSE IF ix.hasAmount THEN ix.amount ELSE Null
             decimals == IF ix.hasTok /\ ix.tokDecimals.kind # "undefined"
                         THEN ix.tokDecimals ELSE NumDecimals(mintDec)
         IN  IF rawStr = Null THEN <<>>
             ELSE LET big == BigIntOfString(rawStr)
                  IN  IF ~big.ok THEN <<>>
                      ELSE IF decimals.kind = "nan" THEN <<>>
                      ELSE <<[raw |-> normalizeRawAmount(big.v, decimals.v,
                                                          mintDec)]>>

scanIx(ix, mint, mintDec) ==
    IF ix.parsed # "object" THEN <<>>
    ELSE IF ix.type # "burn" /\ ix.type # "burnChecked" THEN <<>>
    ELSE IF ix.info = "missing" \/ ix.mint # mint THEN <<>>
    ELSE LET rawStr == IF ix.hasTok THEN ix.tokAmount
                       ELSE IF ix.hasAmount THEN ix.amount ELSE Null
             decimals == IF ix.hasTok /\ ix.tokDecimals.kind # "undefined"
                         THEN ix.tokDecimals ELSE NumDecimals(mintDec)
         IN  IF rawStr = Null THEN <<>>
             ELSE LET big == BigIntOfString(rawStr)
                  IN  \* BigInt(rawStr) throws SyntaxError; BigInt(NaN) inside
                      \* normalizeRawAmount throws RangeError: both are caught
                      IF ~big.ok THEN <<>>
                      ELSE IF decimals.kind = "nan" THEN <<>>
                      ELSE <<[raw |-> normalizeRawAmount(big.v, decimals.v,
                                                          mintDec)]>>

\* A possibly-absent array: [isArray |-> BOOLEAN, items |-> sequence]
NotArray == [isArray |-> FALSE, items |-> <<>>]
Array(items) == [isArray |-> TRUE, items |-> items]

RECURSIVE scanItems(_, _, _)
scanItems(items, mint, mintDec) ==
    IF items = <<>> THEN <<>>
    ELSE scanIx(Head(items), mint, mintDec)
           \o scanItems(Tail(items), mint, mintDec)

\* const scan = (ixs) => { if (!Array.isArray(ixs)) return; for ... }
scan(ixs, mint, mintDec) ==
    IF ~ixs.isArray THEN <<>> ELSE scanItems(ixs.items, mint, mintDec)

RECURSIVE scanSets(_, _, _)
scanSets(sets, mint, mintDec) ==
    IF sets = <<>> THEN <<>>
    ELSE scan(Head(sets), mint, mintDec)
           \o scanSets(Tail(sets), mint, mintDec)

\* tx = [instructions |-> tx?.transaction?.message?.instructions,
\*       inner |-> tx?.meta?.innerInstructions, each set being
\*       set?.instructions]
findBurnEventsInnerFirst(tx, mint, mintDec) ==
    (IF tx.inner.isArray THEN scanSets(tx.inner.items, mint, mintDec)
     ELSE <<>>)
      \o scan(tx.instructions, mint, mintDec)

findBurnEvents(tx, mint, mintDec) ==
    scan(tx.instructions, mint, mintDec)
      \o (IF tx.inner.isArray THEN scanSets(tx.inner.items, mint, mintDec)
          ELSE <<>>)

----------------------------------------------------------------------------
(* Idle values of the variables a specification does not use *)

ScanIdleButBurnJson ==
    /\ pc = "idle"
    /\ maxPages = 0
    /\ mintDecimals = 0
    /\ page = 0
    /\ before = Undefined
    /\ out = <<>>
    /\ idx = 0
    /\ totalRaw = 0
    /\ result = [count |-> 0, totalUi |-> <<"0">>, burns |-> <<>>]
    /\ exitCode = "running"
    /\ ledgerPos = 0
    /\ sigRequests = <<>>
    /\ pageLasts = <<>>
    /\ txRequests = <<>>
    /\ txServed = <<>>
    /\ rpcError = [method |-> "none", status |-> 200, error |-> FALSE]

ScanIdle ==
    /\ ScanIdleButBurnJson
    /\ burnJson = [exists |-> FALSE, parses |-> FALSE, content |-> result]

\* A JSON value as far as price.js reads it: null (or absent), a finite
\* number (v, in thousandths), a number too large for a double (1e999,
\* which JSON.parse reads as Infinity), a numeric string, another string.
JNull == [kind |-> "null", v |-> 0]
JNum(n) == [kind |-> "num", v |-> n]
JInf == [kind |-> "inf", v |-> 0]
JNumStr(n) == [kind |-> "numstr", v |-> n]
JStr == [kind |-> "str", v |-> 0]
NaN == [kind |-> "nan", v |-> 0]

NoSnapshot ==
    [priceUsd |-> JNull, burnTotalTokens |-> JNull, burnTotalUsd |-> JNull,
     updatedAt |-> "never"]

PriceIdle ==
    /\ pricePc = "idle"
    /\ urlIdx = 0
    /\ attempt = 0
    /\ priceUsd = JNull
    /\ burnTotalTokens = JNull
    /\ priceJson = [exists |-> FALSE, parses |-> FALSE, content |-> NoSnapshot]
    /\ prevPriceJson = priceJson
    /\ priceExit = "running"
    /\ priceLog = <<>>

\* a path of the data directory with no file under it
NoFile == [exists |-> FALSE, gen |-> 0, len |-> 0]

WriteIdle ==
    /\ disk = [p \in {"target", "tmp"} |-> NoFile]
    /\ writeFn = "none"
    /\ writePc = "idle"
    /\ writeRun = 0
    /\ observed = {}

----------------------------------------------------------------------------
(* normalizeRawAmount applied to bounded inputs, then applied back *)

RawInputs == (-MaxRaw..MaxRaw) \cup {100, 12345, -12345}

InitNorm ==
    /\ fn \in [op : {"normalizeRawAmount"}, stage : {"in"}, raw : RawInputs,
               from : 0..MaxDecimals, to : 0..MaxDecimals, ret : {0}, back : {0}]
    /\ ScanIdle
    /\ PriceIdle
    /\ WriteIdle

CallNormalize ==
    /\ fn.op = "normalizeRawAmount" /\ fn.stage = "in"
    /\ fn' = [fn EXCEPT !.stage = "out",
                        !.ret = normalizeRawAmount(fn.raw, fn.from, fn.to)]
    /\ UNCHANGED <<scanVars, priceVars, writeVars>>

CallNormalizeBack ==
    /\ fn.op = "normalizeRawAmount" /\ fn.stage = "out"
    /\ fn' = [fn EXCEPT !.stage = "back",
                        !.back = normalizeRawAmount(fn.ret, fn.to, fn.from)]
    /\ UNCHANGED <<scanVars, priceVars, writeVars>>

NextNorm == CallNormalize \/ CallNormalizeBack

SpecNorm == InitNorm /\ [][NextNorm]_vars

\* C5 (as stated): the down-scaling branch is the floor of a / 10^(from-to)
\* for every raw integer amount a.
C5_FloorForEveryAmount ==
    (fn.op = "normalizeRawAmount" /\ fn.stage = "out") =>
        fn.ret = IF fn.from = fn.to THEN fn.raw
                 ELSE IF fn.from < fn.to THEN fn.raw * Pow10(fn.to - fn.from)
                 ELSE fn.raw \div Pow10(fn.from - fn.to)

\* The quotient q of a by m truncated toward zero: the integer with the sign
\* of a (or zero) and the largest magnitude such that |q| * m <= |a|.
IsTruncatedQuotient(q, a, m) ==
    /\ Abs(q) * m <= Abs(a)
    /\ Abs(a) < (Abs(q) + 1) * m
    /\ (a >= 0 => q >= 0)
    /\ (a <= 0 => q <= 0)

\* C5 (amended): normalizeRawAmount(a, from, to) is a when from = to,
\* a * 10^(to-from) when from < to, and a / 10^(from-to) with the remainder
\* dropped (truncated toward zero: the floor for a >= 0, the ceiling for
\* a < 0) when from > to; (100, 2, 4) gives 10000 and (12345, 4, 2) gives 123.
C5_NormalizeTruncates ==
    (fn.op = "normalizeRawAmount" /\ fn.stage = "out") =>
        /\ fn.from = fn.to => fn.ret = fn.raw
        /\ fn.from < fn.to => fn.ret = fn.raw * Pow10(fn.to - fn.from)
        /\ fn.from > fn.to =>
              /\ IsTruncatedQuotient(fn.ret, fn.raw, Pow10(fn.from - fn.to))
              /\ (fn.raw >= 0 => fn.ret = fn.raw \div Pow10(fn.from - fn.to))
        /\ (fn.raw = 100 /\ fn.from = 2 /\ fn.to = 4) => fn.ret = 10000
        /\ (fn.raw = 12345 /\ fn.from = 4 /\ fn.to = 2) => fn.ret = 123

C5_Witness ==
    /\ fn.op = "normalizeRawAmount" /\ fn.stage = "out"
    /\ fn.raw = -12345 /\ fn.from = 4 /\ fn.to = 2 /\ fn.ret = -123

\* C6: for d1 <= d2 the round trip d1 -> d2 -> d1 returns a; for d2 < d1 it
\* returns a with its low (d1-d2) decimal digits zeroed, which is a exactly
\* when a is a multiple of 10^(d1-d2).
C6_RoundTrip ==
    (fn.op = "normalizeRawAmount" /\ fn.stage = "back") =>
        LET m == Pow10(fn.from - fn.to)
        IN  /\ fn.from <= fn.to => fn.back = fn.raw
            /\ fn.from > fn.to =>
                  /\ fn.back % m = 0
                  /\ Abs(fn.back) <= Abs(fn.raw)
                  /\ Abs(fn.raw) - Abs(fn.back) < m
                  /\ (fn.raw >= 0 => fn.back >= 0)
                  /\ (fn.raw <= 0 => fn.back <= 0)
                  /\ (fn.back = fn.raw <=> fn.raw % m = 0)

C6_Witness ==
    /\ fn.op = "normalizeRawAmount" /\ fn.stage = "back"
    /\ fn.raw = 12345 /\ fn.from = 4 /\ fn.to = 2 /\ fn.back = 12300

----------------------------------------------------------------------------
(* bigIntToDecimalString applied to bounded inputs *)

FmtInputs == (-MaxRaw..MaxRaw) \cup {1000000, 1234500}

InitFmt ==
    /\ fn \in [op : {"bigIntToDecimalString"}, stage : {"in"}, raw : FmtInputs,
               decimals : 0..MaxFmtDecimals, ret : {<<>>}]
    /\ ScanIdle
    /\ PriceIdle
    /\ WriteIdle

CallFormat ==
    /\ fn.op = "bigIntToDecimalString" /\ fn.stage = "in"
    /\ fn' = [fn EXCEPT !.stage = "out",
                        !.ret = bigIntToDecimalString(fn.raw, fn.decimals)]
    /\ UNCHANGED <<scanVars, priceVars, writeVars>>

NextFmt == CallFormat

SpecFmt == InitFmt /\ [][NextFmt]_vars

\* Reading a decimal string back at a given precision: the digits before
\* the point, then the digits after it padded on the right to `decimals`
\* places, taken as one integer; a leading "-" negates.
PointAt(s) == IF \E i \in 1..Len(s) : s[i] = "."
              THEN CHOOSE i \in 1..Len(s) : s[i] = "." ELSE 0

ParseUnsignedDecimal(s, decimals) ==
    LET p == PointAt(s)
        int == IF p = 0 THEN s ELSE SubSeq(s, 1, p - 1)
        frac == IF p = 0 THEN <<>> ELSE SubSeq(s, p + 1, Len(s))
    IN  DigitsValue(int) * Pow10(decimals)
          + DigitsValue(frac) * Pow10(decimals - Len(frac))

ParseDecimal(s, decimals) ==
    IF s # <<>> /\ s[1] = "-"
    THEN -ParseUnsignedDecimal(SubSeq(s, 2, Len(s)), decimals)
    ELSE ParseUnsignedDecimal(s, decimals)

\* digits, optionally followed by a point and at least one digit, the last
\* of which is not "0"
IsCanonicalDecimal(s) ==
    LET p == PointAt(s)
    IN  /\ Len(s) >= 1
        /\ \A i \in 1..Len(s) : i # p => IsDigit(s[i])
        /\ p # 0 => (1 < p /\ p < Len(s) /\ s[Len(s)] # "0")

\* C7: for a >= 0 and d >= 0, bigIntToDecimalString(a, d) has no trailing
\* fractional zeros, has a decimal point exactly when a is not a multiple of
\* 10^d, reads back at precision d as exactly a, and formatting the value
\* read back gives the identical string; 0 gives "0", 1000000 at 6 gives
\* "1", 1234500 at 6 gives "1.2345".
C7_CanonicalLossless ==
    (fn.op = "bigIntToDecimalString" /\ fn.stage = "out" /\ fn.raw >= 0) =>
        /\ IsCanonicalDecimal(fn.ret)
        /\ (PointAt(fn.ret) = 0 <=> fn.raw % Pow10(fn.decimals) = 0)
        /\ ParseDecimal(fn.ret, fn.decimals) = fn.raw
        /\ bigIntToDecimalString(ParseDecimal(fn.ret, fn.decimals), fn.decimals)
              = fn.ret
        /\ fn.raw = 0 => fn.ret = <<"0">>
        /\ (fn.raw = 1000000 /\ fn.decimals = 6) => fn.ret = <<"1">>
        /\ (fn.raw = 1234500 /\ fn.decimals = 6)
              => fn.ret = <<"1", ".", "2", "3", "4", "5">>

C7_Witness ==
    /\ fn.op = "bigIntToDecimalString" /\ fn.stage = "out"
    /\ fn.raw = 1234500 /\ fn.decimals = 6
    /\ fn.ret = <<"1", ".", "2", "3", "4", "5">>

----------------------------------------------------------------------------
(* findBurnEvents applied to bounded transactions *)

MaxIxs == 2           \* top-level instructions per transaction: 0..MaxIxs

BaseIx ==
    [parsed |-> "object", type |-> "burn", info |-> "object",
     mint |-> BUMPER_MINT, hasAmount |-> FALSE, amount |-> <<>>,
     hasTok |-> FALSE, tokAmount |-> <<>>, tokDecimals |-> NoDecimals]

IxFlat(type, mint, s) ==
    [BaseIx EXCEPT !.type = type, !.mint = mint, !.hasAmount = TRUE, !.amount = s]

IxTok(type, s, d) ==
    [BaseIx EXCEPT !.type = type, !.hasTok = TRUE, !.tokAmount = s,
                   !.tokDecimals = d]

AmountStrs ==
    {<<"7">>, <<>>, <<"7", ".">>, <<"-", "7">>, <<" ", "7">>, <<"-">>}

NonMatchingIxs ==
    {[IxFlat("burn", BUMPER_MINT, <<"7">>) EXCEPT !.parsed = "missing"],
     [IxFlat("burn", BUMPER_MINT, <<"7">>) EXCEPT !.parsed = "string"],
     IxFlat("transfer", BUMPER_MINT, <<"7">>),
     IxFlat("burn", OtherMint, <<"7">>),
     [IxFlat("burnChecked", Undefined, <<"7">>) EXCEPT !.info = "missing"]}

MatchingIxs ==
    {IxFlat("burn", BUMPER_MINT, s) : s \in AmountStrs}
    \cup {IxTok("burnChecked", <<"1", "0", "0">>, d) :
            d \in {NoDecimals, NumDecimals(1), NumDecimals(3), NaNDecimals}}
    \cup {[IxTok("burnChecked", <<"1", "0", "0">>, NumDecimals(3))
             EXCEPT !.hasAmount = TRUE, !.amount = <<"7">>],
          BaseIx}

IxSet == NonMatchingIxs \cup MatchingIxs

SeqsUpTo(S, n) == UNION {[1..k -> S] : k \in 0..n}

InnerSamples ==
    {NotArray,
     Array(<<>>),
     Array(<<NotArray>>),
     Array(<<Array(<<IxFlat("burnChecked", BUMPER_MINT, <<"7">>)>>)>>),
     Array(<<Array(<<IxFlat("burn", BUMPER_MINT, <<>>),
                     IxFlat("burn", BUMPER_MINT, <<"-", "7">>)>>),
             Array(<<IxFlat("burn", OtherMint, <<"7">>)>>)>>),
     Array(<<Array(<<IxFlat("transfer", BUMPER_MINT, <<"7">>)>>),
             Array(<<IxTok("burn", <<"1", "0", "0">>, NumDecimals(1)),
                     IxFlat("burn", BUMPER_MINT, <<"7", ".">>)>>)>>)}

TxInputs ==
    [instructions : {NotArray} \cup {Array(s) : s \in SeqsUpTo(IxSet, MaxIxs)},
     inner : InnerSamples]

InitScan ==
    /\ fn \in [op : {"findBurnEvents"}, stage : {"in"}, tx : TxInputs,
               mintDec : {0, 2}, ret : {<<>>}]
    /\ ScanIdle
    /\ PriceIdle
    /\ WriteIdle

CallFindBurnEvents ==
    /\ fn.op = "findBurnEvents" /\ fn.stage = "in"
    /\ fn' = [fn EXCEPT !.stage = "out",
                        !.ret = findBurnEvents(fn.tx, BUMPER_MINT, fn.mintDec)]
    /\ UNCHANGED <<scanVars, priceVars, writeVars>>

NextScan == CallFindBurnEvents

SpecScan == InitScan /\ [][NextScan]_vars

\* The transaction with only the instructions satisfying Keep left in.
KeepArr(a, Keep(_)) == IF a.isArray THEN Array(SelectSeq(a.items, Keep)) ELSE a

FilterTx(tx, Keep(_)) ==
    [instructions |-> KeepArr(tx.instructions, Keep),
     inner |-> IF tx.inner.isArray
               THEN Array([i \in DOMAIN tx.inner.items |->
                              KeepArr(tx.inner.items[i], Keep)])
               ELSE tx.inner]

RECURSIVE Flatten(_)
Flatten(sets) ==
    IF sets = <<>> THEN <<>> ELSE Head(sets).items \o Flatten(Tail(sets))

\* every instruction of the transaction, top-level and inner
AllIxs(tx) == tx.instructions.items \o Flatten(tx.inner.items)

\* the instruction has a parsed object, a burn type and the configured mint
MatchesMint(ix) ==
    /\ ix.parsed = "object"
    /\ ix.type \in {"burn", "burnChecked"}
    /\ ix.info = "object"
    /\ ix.mint = BUMPER_MINT

\* C4: an instruction with no parsed object, a type other than burn and
\* burnChecked, or a mint other than the configured one contributes no
\* event: the events are those of the matching instructions alone, and a
\* transaction without a matching instruction yields the empty list.
C4_NonMatchingContributeNothing ==
    (fn.op = "findBurnEvents" /\ fn.stage = "out") =>
        LET matching == SelectSeq(AllIxs(fn.tx), MatchesMint)
        IN  /\ Len(fn.ret) <= Len(matching)
            /\ matching = <<>> => fn.ret = <<>>
            /\ fn.ret = findBurnEvents(FilterTx(fn.tx, MatchesMint),
                                       BUMPER_MINT, fn.mintDec)

C4_Witness ==
    /\ fn.op = "findBurnEvents" /\ fn.stage = "out"
    /\ fn.tx.instructions = Array(<<IxFlat("burn", OtherMint, <<"7">>),
                                    IxFlat("transfer", BUMPER_MINT, <<"7">>)>>)
    /\ fn.tx.inner = Array(<<Array(<<IxFlat("burnChecked", BUMPER_MINT, <<"7">>)>>)>>)
    /\ fn.ret = <<[raw |-> 7]>>

\* The amount string scan reads: tokenAmount.amount when defined, else amount.
RawStrOf(ix) ==
    IF ix.hasTok THEN ix.tokAmount ELSE IF ix.hasAmount THEN ix.amount ELSE Null

\* an optionally signed run of decimal digits, blanks around it allowed
IsIntegerString(s) ==
    LET t == TrimString(s)
    IN  \/ AllDigits(t)
        \/ Len(t) >= 2 /\ t[1] \in {"+", "-"} /\ AllDigits(Tail(t))

NotMalformed(ix) ==
    ~(MatchesMint(ix) /\ RawStrOf(ix) # Null /\ ~IsIntegerString(RawStrOf(ix)))

\* C8: a matching burn instruction whose amount string is not an integer
\* contributes nothing, and the other instructions of the transaction still
\* produce their events: the events are those of the transaction without it.
C8_MalformedAmountContributesNothing ==
    (fn.op = "findBurnEvents" /\ fn.stage = "out") =>
        fn.ret = findBurnEvents(FilterTx(fn.tx, NotMalformed), BUMPER_MINT,
                                fn.mintDec)

NotThrowing(ix) ==
    ~(MatchesMint(ix) /\ RawStrOf(ix) # Null /\ ~BigIntOfString(RawStrOf(ix)).ok)

\* What holds of the amounts BigInt() rejects (the empty string is not one
\* of them: BigInt("") is 0n).
ThrowingAmountContributesNothing ==
    (fn.op = "findBurnEvents" /\ fn.stage = "out") =>
        fn.ret = findBurnEvents(FilterTx(fn.tx, NotThrowing), BUMPER_MINT,
                                fn.mintDec)

----------------------------------------------------------------------------
(* burn.js: rpc, getDecimals, iterSignatures and the main scan *)

MaxPagesBound == 2    \* MAX_PAGES ranges over 0..MaxPagesBound
Limit == 2            \* BATCH_LIMIT: a page holds at most Limit signatures
MaxLedger == 4        \* signatures the ledger holds for the address

BURNER_ADDRESS == "5G62fW1BuK6k9B6sGwvTBtoKRPseshj9SSYPzudSPUYE"

\* The ledger's answers.  An HTTP answer is [status, error, result]:
\* error says whether the JSON body carries a JSON-RPC error payload.
HttpStatuses == {200, 400, 429, 503}

Answers(results) ==
    {[status |-> 200, error |-> FALSE, result |-> r] : r \in results}

\* a failed answer carries no result: `none` stands for the absent one
FailedAnswers(none) ==
    {[status |-> st, error |-> FALSE, result |-> none] :
        st \in HttpStatuses \ {200}}
    \cup {[status |-> 200, error |-> TRUE, result |-> none]}

\* rpc(method, params): throws on a non-2xx status and on an error payload,
\* and returns j.result otherwise.
rpc(answer) ==
    IF ~(answer.status >= 200 /\ answer.status <= 299)
    THEN [threw |-> TRUE, result |-> answer.result]
    ELSE IF answer.error THEN [threw |-> TRUE, result |-> answer.result]
    ELSE [threw |-> FALSE, result |-> answer.result]

\* The ledger hands out signatures that are all different.
Signature(n) == "sig" \o ToString(n)

ErrValue == "InstructionError"

Min(a, b) == IF a <= b THEN a ELSE b

\* the pages the ledger may answer with when it has served n signatures:
\* 1..Limit of the entries it has left, each a success (err null) or a
\* failure
PagesAfter(n) ==
    UNION {{Array([i \in 1..k |->
                     [signature |-> Signature(n + i), err |-> e[i]]]) :
               e \in [1..k -> {Null, ErrValue}]} :
             k \in 1..Min(Limit, MaxLedger - n)}

\* a getSignaturesForAddress result: null (NotArray), [] or a page
PageResults(n) == {NotArray, Array(<<>>)} \cup PagesAfter(n)

TxTwoBurns ==
    [instructions |-> Array(<<IxFlat("burn", BUMPER_MINT, <<"7">>)>>),
     inner |-> Array(<<Array(<<IxTok("burnChecked", <<"1", "0", "0">>,
                                     NumDecimals(3))>>)>>)]

TxNoBurn ==
    [instructions |-> Array(<<IxFlat("transfer", BUMPER_MINT, <<"7">>),
                              IxFlat("burn", BUMPER_MINT, <<"7", ".">>)>>),
     inner |-> NotArray]

TxNegativeBurn ==
    [instructions |-> Array(<<IxFlat("burn", BUMPER_MINT, <<"-", "7">>)>>),
     inner |-> Array(<<>>)]

\* one burn of raw 500000, one of raw 250000
TxBurn500000 ==
    [instructions |-> Array(<<IxFlat("burn", BUMPER_MINT,
                                     <<"5", "0", "0", "0", "0", "0">>)>>),
     inner |-> Array(<<>>)]

TxBurn250000 ==
    [instructions |-> Array(<<IxFlat("burn", BUMPER_MINT,
                                     <<"2", "5", "0", "0", "0", "0">>)>>),
     inner |-> NotArray]

\* the transactions the ledger holds: for a mint of 6 decimals the two
\* single burns, for the other mints the mixed transactions
TxSamples(mintDec) ==
    IF mintDec = 6 THEN {TxBurn500000, TxBurn250000}
    ELSE {TxTwoBurns, TxNoBurn, TxNegativeBurn}

\* a getTransaction result: null, or a transaction
NullTx == [isNull |-> TRUE, tx |-> TxNoBurn]
TxResults(mintDec) ==
    {NullTx} \cup {[isNull |-> FALSE, tx |-> t] : t \in TxSamples(mintDec)}

MintDecimalsSet == {0, 2, 6}

Url(sig) == "https://solscan.io/tx/" \o sig

\* main, the body of `for (const b of burns)`: one event folded into the
\* running total and the result
foldOneNoCount(acc, b, sig, mintDec) ==
    [totalRaw |-> acc.totalRaw + b.raw,
     result |-> [acc.result EXCEPT
        !.count = IF b.raw = 0 THEN @ ELSE @ + 1,
        !.burns = Append(@, [amountUi |-> bigIntToDecimalString(b.raw, mintDec),
                             url |-> Url(sig)])]]

foldOne(acc, b, sig, mintDec) ==
    [totalRaw |-> acc.totalRaw + b.raw,
     result |-> [acc.result EXCEPT
        !.count = @ + 1,
        !.burns = Append(@, [amountUi |-> bigIntToDecimalString(b.raw, mintDec),
                             url |-> Url(sig)])]]

RECURSIVE foldBurns(_, _, _, _)
foldBurns(acc, burns, sig, mintDec) ==
    IF burns = <<>> THEN acc
    ELSE foldBurns(foldOne(acc, Head(burns), sig, mintDec), Tail(burns), sig,
                   mintDec)

Fail(method, answer) ==
    /\ pc' = "failed"
    /\ exitCode' = "exit 1"
    /\ rpcError' = [method |-> method, status |-> answer.status,
                    error |-> answer.error]

Init ==
    /\ fn = [op |-> "none"]
    /\ pc = "getDecimals"
    /\ maxPages \in 0..MaxPagesBound
    /\ mintDecimals = 0
    /\ page = 0
    /\ before = Undefined
    /\ out = <<>>
    /\ idx = 0
    /\ totalRaw = 0
    /\ result = [count |-> 0, totalUi |-> <<"0">>, burns |-> <<>>]
    /\ burnJson = [exists |-> FALSE, parses |-> FALSE, content |-> result]
    /\ exitCode = "running"
    /\ ledgerPos = 0
    /\ sigRequests = <<>>
    /\ pageLasts = <<>>
    /\ txRequests = <<>>
    /\ txServed = <<>>
    /\ rpcError = [method |-> "none", status |-> 200, error |-> FALSE]
    /\ PriceIdle
    /\ WriteIdle

\* const mintDecimals = await getDecimals(mint)
getDecimals ==
    /\ pc = "getDecimals"
    /\ \E answer \in Answers(MintDecimalsSet) \cup FailedAnswers(0) :
          LET r == rpc(answer)
          IN  IF r.threw
              THEN /\ Fail("getTokenSupply", answer)
                   /\ UNCHANGED mintDecimals
              ELSE /\ mintDecimals' = r.result
                   /\ pc' = "nextPage"
                   /\ UNCHANGED <<exitCode, rpcError>>
    /\ UNCHANGED <<fn, priceVars, writeVars, maxPages, page, before, out, idx,
                   totalRaw, result, burnJson, ledgerPos, sigRequests,
                   pageLasts, txRequests, txServed>>

\* iterSignatures: the head of the for loop, up to the first item of the
\* page it receives
cursorAlwaysUndefined(b) == Undefined
cursorParam(b) == IF b # Undefined THEN b ELSE Undefined

loopGuardOffByOne(p, mp) == p <= mp
loopGuard(p, mp) == p < mp

iterSignaturesRequest ==
    /\ pc = "nextPage"
    /\ IF ~loopGuard(page, maxPages)
       THEN /\ pc' = "finish"
            /\ UNCHANGED <<out, idx, ledgerPos, sigRequests, pageLasts,
                           exitCode, rpcError>>
       ELSE \E answer \in Answers(PageResults(ledgerPos))
                            \cup FailedAnswers(NotArray) :
               LET r == rpc(answer)
               IN  /\ sigRequests' = Append(sigRequests, cursorParam(before))
                   /\ IF r.threw
                      THEN /\ Fail("getSignaturesForAddress", answer)
                           /\ UNCHANGED <<out, idx, ledgerPos, pageLasts>>
                      ELSE IF ~r.result.isArray \/ Len(r.result.items) = 0
                      THEN /\ pc' = "finish"
                           /\ out' = <<>>
                           /\ pageLasts' = Append(pageLasts, Undefined)
                           /\ UNCHANGED <<idx, ledgerPos, exitCode, rpcError>>
                      ELSE /\ pc' = "items"
                           /\ out' = r.result.items
                           /\ idx' = 1
                           /\ ledgerPos' = ledgerPos + Len(r.result.items)
                           /\ pageLasts' =
                                 Append(pageLasts,
                                        r.result.items[Len(r.result.items)].signature)
                           /\ UNCHANGED <<exitCode, rpcError>>
    /\ UNCHANGED <<fn, priceVars, writeVars, maxPages, mintDecimals, page,
                   before, totalRaw, result, burnJson, txRequests, txServed>>

\* iterSignatures: past the current item; after the last one of the page,
\* before = out[out.length - 1].signature and page++
Advance ==
    IF idx < Len(out)
    THEN /\ idx' = idx + 1
         /\ UNCHANGED <<pc, before, page>>
    ELSE /\ before' = out[Len(out)].signature
         /\ page' = page + 1
         /\ pc' = "nextPage"
         /\ UNCHANGED idx

yieldsAnyItem(item) == TRUE
yields(item) == item.err = Null

\* iterSignatures: an item that is not yielded
iterSignaturesSkip ==
    /\ pc = "items"
    /\ ~yields(out[idx])
    /\ Advance
    /\ UNCHANGED <<fn, priceVars, writeVars, maxPages, mintDecimals, out,
                   totalRaw, result, burnJson, exitCode, ledgerPos,
                   sigRequests, pageLasts, txRequests, txServed, rpcError>>

\* iterSignatures yields out[idx].signature and main runs the loop body on
\* it: getTransaction, findBurnEvents, the fold, sleep
mainLoopBody ==
    /\ pc = "items"
    /\ yields(out[idx])
    /\ \E answer \in Answers(TxResults(mintDecimals))
                      \cup FailedAnswers(NullTx) :
          LET r == rpc(answer)
              sig == out[idx].signature
          IN  /\ txRequests' = Append(txRequests, out[idx])
              /\ txServed' = Append(txServed, r)
              /\ IF r.threw
                 THEN /\ Fail("getTransaction", answer)
                      /\ UNCHANGED <<totalRaw, result, idx, before, page>>
                 ELSE IF r.result.isNull
                 THEN /\ Advance
                      /\ UNCHANGED <<totalRaw, result, exitCode, rpcError>>
                 ELSE LET burns == findBurnEvents(r.result.tx, BUMPER_MINT,
                                                  mintDecimals)
                          acc == foldBurns([totalRaw |-> totalRaw,
                                            result |-> result],
                                           burns, sig, mintDecimals)
                      IN  /\ totalRaw' = acc.totalRaw
                          /\ result' = acc.result
                          /\ Advance
                          /\ UNCHANGED <<exitCode, rpcError>>
    /\ UNCHANGED <<fn, priceVars, writeVars, maxPages, mintDecimals, out,
                   burnJson, ledgerPos, sigRequests, pageLasts>>

\* main after the loop: totalUi, then data/burn.json is written
mainFinish ==
    /\ pc = "finish"
    /\ result' = [result EXCEPT
                    !.totalUi = bigIntToDecimalString(totalRaw, mintDecimals)]
    /\ burnJson' = [exists |-> TRUE, parses |-> TRUE, content |-> result']
    /\ pc' = "done"
    /\ exitCode' = "exit 0"
    /\ UNCHANGED <<fn, priceVars, writeVars, maxPages, mintDecimals, page,
                   before, out, idx, totalRaw, ledgerPos, sigRequests,
                   pageLasts, txRequests, txServed, rpcError>>

Next ==
    \/ getDecimals
    \/ iterSignaturesRequest
    \/ iterSignaturesSkip
    \/ mainLoopBody
    \/ mainFinish

Spec == Init /\ [][Next]_vars

RECURSIVE SumParsed(_, _)
SumParsed(burns, decimals) ==
    IF burns = <<>> THEN 0
    ELSE ParseDecimal(Head(burns).amountUi, decimals)
           + SumParsed(Tail(burns), decimals)

\* C1: after every fold, count is the length of burns and totalRaw is the
\* sum of the raw amounts of the records appended so far (each amountUi read
\* back at mintDecimals); the object written to data/burn.json has the same
\* count and its totalUi is bigIntToDecimalString of that integer sum.
C1_AggregateInvariant ==
    /\ result.count = Len(result.burns)
    /\ totalRaw = SumParsed(result.burns, mintDecimals)
    /\ burnJson.exists =>
          /\ pc = "done"
          /\ burnJson.content.count = Len(burnJson.content.burns)
          /\ burnJson.content.burns = result.burns
          /\ burnJson.content.totalUi =
                bigIntToDecimalString(SumParsed(burnJson.content.burns,
                                                mintDecimals), mintDecimals)

C1_Witness ==
    /\ burnJson.exists
    /\ burnJson.content.count = 3
    /\ mintDecimals = 2
    /\ burnJson.content.totalUi = <<"0", ".", "1">>

\* C2: getTransaction is never called for an entry whose err is not null,
\* and every record of burns comes from an entry that was asked for: an
\* entry with a non-null err adds nothing to count, burns or the total.
C2_FailedNeverYielded ==
    /\ \A i \in DOMAIN txRequests : txRequests[i].err = Null
    /\ \A j \in DOMAIN out :
          out[j].err # Null =>
             /\ \A i \in DOMAIN txRequests :
                   txRequests[i].signature # out[j].signature
             /\ \A k \in DOMAIN result.burns :
                   result.burns[k].url # Url(out[j].signature)
    /\ \A k \in DOMAIN result.burns :
          \E i \in DOMAIN txRequests :
             result.burns[k].url = Url(txRequests[i].signature)

C2_Witness ==
    /\ pc = "nextPage"
    /\ Len(out) = 2
    /\ out[1].err # Null
    /\ out[2].err = Null
    /\ Len(txRequests) = 1
    /\ txRequests[1] = out[2]
    /\ result.count = 2

Last(s) == s[Len(s)]

\* C3: the first getSignaturesForAddress call carries no cursor and each
\* later one the last signature of the page before it; no call follows an
\* empty or absent page; the iterator returns only after such a page or
\* after maxPages calls, and never makes more than maxPages calls.
C3_PaginationProtocol ==
    /\ Len(sigRequests) <= maxPages
    /\ Len(pageLasts) <= Len(sigRequests)
    /\ \A i \in DOMAIN sigRequests :
          IF i = 1 THEN sigRequests[i] = Undefined
          ELSE /\ pageLasts[i - 1] # Undefined
               /\ sigRequests[i] = pageLasts[i - 1]
    /\ pc \in {"finish", "done"} =>
          \/ Len(sigRequests) = maxPages
          \/ pageLasts # <<>> /\ Last(pageLasts) = Undefined
    /\ (pageLasts # <<>> /\ Last(pageLasts) = Undefined) =>
          pc \in {"finish", "done"}

C3_Witness ==
    /\ pc = "done"
    /\ maxPages = 2
    /\ Len(sigRequests) = 2
    /\ sigRequests[2] = Signature(2)
    /\ Len(out) = 2
    /\ out[2].err # Null

\* the records of the instructions ixs, one after the other
RECURSIVE RecordsInOrder(_, _, _)
RecordsInOrder(ixs, sig, mintDec) ==
    IF ixs = <<>> THEN <<>>
    ELSE LET e == scanIx(Head(ixs), BUMPER_MINT, mintDec)
         IN  (IF e = <<>> THEN <<>>
              ELSE <<[amountUi |-> bigIntToDecimalString(e[1].raw, mintDec),
                      url |-> Url(sig)]>>)
               \o RecordsInOrder(Tail(ixs), sig, mintDec)

\* the records of the first n getTransaction calls, call after call; within
\* a transaction the top-level instructions by position, then the inner
\* groups in order, each by position
RECURSIVE ExpectedBurns(_)
ExpectedBurns(n) ==
    IF n = 0 THEN <<>>
    ELSE ExpectedBurns(n - 1)
           \o (IF txServed[n].threw \/ txServed[n].result.isNull THEN <<>>
               ELSE RecordsInOrder(AllIxs(txServed[n].result.tx),
                                   txRequests[n].signature, mintDecimals))

\* the place of a signature in the ledger's order
LedgerIndex(sig) == CHOOSE n \in 1..MaxLedger : Signature(n) = sig

\* the iterator has gone past entry j of the current page
PastEntry(j) ==
    IF pc = "items" THEN j < idx
    ELSE IF pc = "failed" /\ rpcError.method = "getTransaction" THEN j <= idx
    ELSE TRUE

AmountsOf(burns) == [k \in DOMAIN burns |-> burns[k].amountUi]

TopLevelBeforeInnerSeen ==
    /\ mintDecimals = 2
    /\ Len(txServed) = 1
    /\ ~txServed[1].threw
    /\ txServed[1].result = [isNull |-> FALSE, tx |-> TxTwoBurns]
    /\ AmountsOf(result.burns) = <<<<"0", ".", "0", "7">>, <<"0", ".", "1">>>>

PermanentFailure(e) ==
    e.method \in {"getTransaction", "getSignaturesForAddress"}
      /\ (e.status = 400 \/ e.error)

\* C9: a permanent failure of one getTransaction or getSignaturesForAddress
\* call does not abort the scan: the process does not exit with an error.
C9_PermanentFailureSkipsOneUnit ==
    PermanentFailure(rpcError) => exitCode # "exit 1"

----------------------------------------------------------------------------
(* price.js (the revision with retries, curl and the last-price fallback) *)

retries == 5

\* Finite numbers are exact thousandths (JNum(1500) is 1.5); a product of
\* two of them is in millionths.
isFinite(x) == x.kind = "num"

\* Number(value) of a JSON value that is not null
Number(x) ==
    IF x.kind \in {"num", "numstr"} THEN JNum(x.v)
    ELSE IF x.kind = "inf" THEN JInf
    ELSE NaN

\* parseFloat of a string that is a decimal numeral with at most three
\* fraction digits, or that has no numeric prefix at all
parseFloat(s) ==
    LET u == IF s # <<>> /\ s[1] = "-" THEN Tail(s) ELSE s
    IN  IF IsCanonicalDecimal(u) THEN JNum(ParseDecimal(s, 3)) ELSE NaN

\* A Jupiter answer body: [hasData, entries], entries being data.data in key
\* order, each [isMint, price].
NoData == [hasData |-> FALSE, entries |-> <<>>]
Data(entries) == [hasData |-> TRUE, entries |-> entries]
MintEntry(price) == [isMint |-> TRUE, price |-> price]
OtherEntry(price) == [isMint |-> FALSE, price |-> price]

JupiterBodies ==
    {NoData,
     Data(<<>>),
     Data(<<MintEntry(JNum(1500))>>),
     Data(<<MintEntry(JNumStr(1500))>>),
     Data(<<OtherEntry(JNum(20))>>),
     Data(<<OtherEntry(JNum(20)), OtherEntry(JNum(30))>>),
     Data(<<OtherEntry(JNum(20)), MintEntry(JNum(1500))>>),
     Data(<<MintEntry(JNull)>>),
     Data(<<MintEntry(JStr)>>),
     Data(<<MintEntry(JInf)>>)}

parseJupiterPrice(data) ==
    IF ~data.hasData THEN JNull
    ELSE LET mine == SelectSeq(data.entries, LAMBDA e : e.isMint)
         IN  IF mine # <<>> /\ mine[1].price.kind # "null"
             THEN Number(mine[1].price)
             ELSE IF Len(data.entries) = 1 /\ data.entries[1].price.kind # "null"
             THEN Number(data.entries[1].price)
             ELSE JNull

\* getJupiterPriceUsd: const urls = [v4, v6]
urlsSwapped == <<"v6", "v4">>
urls == <<"v4", "v6">>

\* what one request to the price feed may come to: no usable answer (network
\* error, timeout, non-2xx status, a body that is not JSON, curl exiting
\* non-zero), or a JSON body
FeedOutcomes ==
    {[kind |-> "error", body |-> NoData]}
    \cup {[kind |-> "json", body |-> b] : b \in JupiterBodies}

BurnFiles ==
    {[exists |-> FALSE, parses |-> FALSE,
      content |-> [count |-> 0, totalUi |-> <<"0">>, burns |-> <<>>]],
     [exists |-> TRUE, parses |-> FALSE,
      content |-> [count |-> 0, totalUi |-> <<"0">>, burns |-> <<>>]]}
    \cup {[exists |-> TRUE, parses |-> TRUE,
           content |-> [count |-> 0, totalUi |-> t, burns |-> <<>>]] :
            t \in {<<>>, <<"0">>, <<"0", ".", "1">>, <<"1", "7">>, <<"a">>}}

Snapshot(price) ==
    [priceUsd |-> price, burnTotalTokens |-> JNum(100),
     burnTotalUsd |-> JNum(120000), updatedAt |-> "earlier"]

PrevPriceFiles ==
    {[exists |-> FALSE, parses |-> FALSE, content |-> NoSnapshot],
     [exists |-> TRUE, parses |-> FALSE, content |-> NoSnapshot]}
    \cup {[exists |-> TRUE, parses |-> TRUE, content |-> Snapshot(p)] :
            p \in {JNum(1200), JInf, JNumStr(1200), JNull}}

InitPrice ==
    /\ fn = [op |-> "none"]
    /\ ScanIdleButBurnJson
    /\ WriteIdle
    /\ burnJson \in BurnFiles
    /\ pricePc = "readBurn"
    /\ urlIdx = 0
    /\ attempt = 0
    /\ priceUsd = JNull
    /\ burnTotalTokens = JNull
    /\ priceJson \in PrevPriceFiles
    /\ prevPriceJson = priceJson
    /\ priceExit = "running"
    /\ priceLog = <<>>

PriceFail ==
    /\ pricePc' = "failed"
    /\ priceExit' = "exit 1"

\* const burnTotalTokens = readBurnJson()
readBurnJson ==
    /\ pricePc = "readBurn"
    /\ IF ~burnJson.exists \/ ~burnJson.parses
       THEN PriceFail /\ UNCHANGED <<burnTotalTokens, urlIdx>>
       ELSE LET t == burnJson.content.totalUi
                totalUi == parseFloat(IF t = <<>> THEN <<"0">> ELSE t)
            IN  IF ~isFinite(totalUi)
                THEN PriceFail /\ UNCHANGED <<burnTotalTokens, urlIdx>>
                ELSE /\ burnTotalTokens' = totalUi
                     /\ pricePc' = "fetch"
                     /\ urlIdx' = 1
                     /\ UNCHANGED priceExit
    /\ UNCHANGED <<fn, scanVars, writeVars, attempt, priceUsd, priceJson,
                   prevPriceJson, priceLog>>

Logged(via, outcome, price) ==
    Append(priceLog, [url |-> urls[urlIdx], via |-> via, outcome |-> outcome,
                      price |-> price])

\* getJupiterPriceUsd, first loop: one fetch of fetchJsonWithRetries(url)
fetchAttempt ==
    /\ pricePc = "fetch"
    /\ \E o \in FeedOutcomes :
          LET price == parseJupiterPrice(o.body)
              nextUrl == IF urlIdx < Len(urls)
                         THEN /\ urlIdx' = urlIdx + 1
                              /\ attempt' = 0
                              /\ UNCHANGED pricePc
                         ELSE /\ urlIdx' = 1
                              /\ attempt' = 0
                              /\ pricePc' = "curl"
          IN  IF o.kind = "error"
              THEN /\ priceLog' = Logged("fetch", "error", JNull)
                   /\ IF attempt + 1 < retries
                      THEN /\ attempt' = attempt + 1
                           /\ UNCHANGED <<urlIdx, pricePc>>
                      ELSE nextUrl
                   /\ UNCHANGED priceUsd
              ELSE IF price.kind # "null" /\ isFinite(price)
              THEN /\ priceLog' = Logged("fetch", "finite", price)
                   /\ priceUsd' = price
                   /\ pricePc' = "write"
                   /\ UNCHANGED <<urlIdx, attempt>>
              ELSE /\ priceLog' = Logged("fetch", "none", price)
                   /\ nextUrl
                   /\ UNCHANGED priceUsd
    /\ UNCHANGED <<fn, scanVars, writeVars, burnTotalTokens, priceJson,
                   prevPriceJson, priceExit>>

\* getJupiterPriceUsd, second loop: curlJson(url)
curlAttempt ==
    /\ pricePc = "curl"
    /\ \E o \in FeedOutcomes :
          LET price == parseJupiterPrice(o.body)
              nextUrl == IF urlIdx < Len(urls)
                         THEN /\ urlIdx' = urlIdx + 1
                              /\ UNCHANGED pricePc
                         ELSE /\ pricePc' = "fallback"
                              /\ UNCHANGED urlIdx
          IN  IF o.kind = "error"
              THEN /\ priceLog' = Logged("curl", "error", JNull)
                   /\ nextUrl
                   /\ UNCHANGED priceUsd
              ELSE IF price.kind # "null" /\ isFinite(price)
              THEN /\ priceLog' = Logged("curl", "finite", price)
                   /\ priceUsd' = price
                   /\ pricePc' = "write"
                   /\ UNCHANGED urlIdx
              ELSE /\ priceLog' = Logged("curl", "none", price)
                   /\ nextUrl
                   /\ UNCHANGED priceUsd
    /\ UNCHANGED <<fn, scanVars, writeVars, attempt, burnTotalTokens, priceJson,
                   prevPriceJson, priceExit>>

\* main, the catch around getJupiterPriceUsd: the previous price.json
prevPriceUsableAny(prev) == prev.exists
prevPriceUsable(prev) ==
    /\ prev.exists
    /\ prev.parses
    /\ prev.content.priceUsd.kind \in {"num", "inf"}
    /\ isFinite(prev.content.priceUsd)

mainCatch ==
    /\ pricePc = "fallback"
    /\ IF prevPriceUsable(priceJson)
       THEN /\ priceUsd' = priceJson.content.priceUsd
            /\ pricePc' = "write"
            /\ UNCHANGED priceExit
       ELSE PriceFail /\ UNCHANGED priceUsd
    /\ UNCHANGED <<fn, scanVars, writeVars, urlIdx, attempt, burnTotalTokens,
                   priceJson, prevPriceJson, priceLog>>

\* main: the snapshot, then writePriceJson(out)
mainWrite ==
    /\ pricePc = "write"
    /\ priceJson' =
          [exists |-> TRUE, parses |-> TRUE,
           content |-> [priceUsd |-> priceUsd,
                        burnTotalTokens |-> burnTotalTokens,
                        burnTotalUsd |-> JNum(burnTotalTokens.v * priceUsd.v),
                        updatedAt |-> "now"]]
    /\ pricePc' = "done"
    /\ priceExit' = "exit 0"
    /\ UNCHANGED <<fn, scanVars, writeVars, urlIdx, attempt, priceUsd,
                   burnTotalTokens, prevPriceJson, priceLog>>

NextPrice ==
    \/ readBurnJson
    \/ fetchAttempt
    \/ curlAttempt
    \/ mainCatch
    \/ mainWrite

SpecPrice == InitPrice /\ [][NextPrice]_vars

\* the four stages of the chain, in order
Stage(e) == (IF e.via = "fetch" THEN 0 ELSE 2) + (IF e.url = "v4" THEN 1 ELSE 2)
MaxTries(stage) == IF stage <= 2 THEN retries ELSE 1
TriesAt(stage) == Cardinality({i \in DOMAIN priceLog : Stage(priceLog[i]) = stage})

\* the previous price.json exists and holds a finite number as priceUsd
HasPreviousPrice ==
    /\ prevPriceJson.exists
    /\ prevPriceJson.parses
    /\ prevPriceJson.content.priceUsd.kind = "num"

AllAttemptsFailed ==
    /\ pricePc \in {"write", "done", "failed"}
    /\ priceLog # <<>>
    /\ Last(priceLog).outcome # "finite"

\* C10: the feed is asked in the order v4 by fetch (up to `retries` times),
\* v6 by fetch (likewise), v4 by curl, v6 by curl; a stage is left only
\* when it gave no finite price, and the first finite price ends the chain
\* and is the run's priceUsd.  When every attempt failed, a previous
\* price.json holding a finite priceUsd is reused and a new snapshot written
\* with it; without one the process exits 1 and price.json is left as found.
C10_FallbackChain ==
    /\ priceLog # <<>> => Stage(priceLog[1]) = 1
    /\ \A i \in DOMAIN priceLog :
          /\ TriesAt(Stage(priceLog[i])) <= MaxTries(Stage(priceLog[i]))
          /\ i < Len(priceLog) =>
                LET a == priceLog[i]
                    b == priceLog[i + 1]
                IN  /\ a.outcome # "finite"
                    /\ \/ /\ Stage(b) = Stage(a)
                          /\ a.outcome = "error"
                       \/ /\ Stage(b) = Stage(a) + 1
                          /\ \/ a.outcome = "none"
                             \/ Cardinality({j \in 1..i :
                                               Stage(priceLog[j]) = Stage(a)})
                                  = MaxTries(Stage(a))
    /\ (priceLog # <<>> /\ Last(priceLog).outcome = "finite") =>
          /\ pricePc \in {"write", "done"}
          /\ priceUsd = Last(priceLog).price
    /\ pricePc = "fallback" => Stage(Last(priceLog)) = 4
    /\ AllAttemptsFailed =>
          /\ Stage(Last(priceLog)) = 4
          /\ IF HasPreviousPrice
             THEN /\ pricePc \in {"write", "done"}
                  /\ priceUsd = prevPriceJson.content.priceUsd
             ELSE /\ pricePc = "failed"
                  /\ priceExit = "exit 1"
    /\ pricePc = "done" =>
          /\ priceExit = "exit 0"
          /\ priceJson.exists /\ priceJson.parses
          /\ priceJson.content.priceUsd = priceUsd
          /\ priceJson.content.updatedAt = "now"
    /\ pricePc # "done" => priceJson = prevPriceJson
    /\ priceExit = "exit 1" <=> pricePc = "failed"

C10_Witness ==
    /\ pricePc = "done"
    /\ Len(priceLog) = 2 * retries + 2
    /\ Last(priceLog).outcome = "error"
    /\ priceJson.content.priceUsd = JNum(1200)
    /\ priceJson.content.updatedAt = "now"

\* data/burn.json is missing, or is there but JSON.parse rejects its text
\* (a file of zero bytes among them)
BurnJsonMissingOrEmpty == ~burnJson.exists \/ ~burnJson.parses

\* C11: with data/burn.json missing or empty the price run goes on with a
\* burn total of zero; from then on only the price feed can make it fail.
C11_MissingBurnJsonFallsBackToZero ==
    (BurnJsonMissingOrEmpty /\ pricePc # "readBurn") =>
        /\ burnTotalTokens = JNum(0)
        /\ pricePc = "failed" => priceLog # <<>>

\* What readBurnJson does: a file that is missing or does not parse ends the
\* run with exit 1 before any price request, and price.json stays as found;
\* a file that parses but has no (or an empty) totalUi gives the total 0.
ReadBurnJsonThrowsOnMissingOrEmpty ==
    /\ (BurnJsonMissingOrEmpty /\ pricePc # "readBurn") =>
          /\ pricePc = "failed"
          /\ priceExit = "exit 1"
          /\ priceLog = <<>>
          /\ burnTotalTokens = JNull
          /\ priceJson = prevPriceJson
    /\ (~BurnJsonMissingOrEmpty /\ burnJson.content.totalUi = <<>>
          /\ pricePc # "readBurn") => burnTotalTokens = JNum(0)

----------------------------------------------------------------------------
(* Persisting a snapshot while another process reads the target file *)

Chunks == 2     \* write() calls that put the whole JSON text into a file
MaxRuns == 2    \* runs of the script, one after the other

\* the file that holds the first len chunks of the JSON text of run gen
FileOf(gen, len) == [exists |-> TRUE, gen |-> gen, len |-> len]

\* writeJsonAtomic (burn.js and price.js, later revisions) and the direct
\* fs.writeFileSync(outPath, ...) of writePriceJson and of the first burn.js
WriteFns == {"writeJsonAtomic", "writePriceJson"}

InitWrite ==
    /\ fn = [op |-> "none"]
    /\ ScanIdle
    /\ PriceIdle
    /\ writeFn \in WriteFns
    /\ disk \in {[p \in {"target", "tmp"} |->
                    IF p = "target" THEN prev ELSE NoFile] :
                    prev \in {NoFile, FileOf(0, Chunks)}}
    /\ writePc = "open"
    /\ writeRun = 1
    /\ observed = {}

\* the path fs.writeFileSync is given
writePath == IF writeFn = "writeJsonAtomic" THEN "tmp" ELSE "target"

\* fs.writeFileSync(path, text), opening: the file is created or truncated
writeFileSyncOpen ==
    /\ writePc = "open"
    /\ disk' = [disk EXCEPT ![writePath] = FileOf(writeRun, 0)]
    /\ writePc' = "write"
    /\ UNCHANGED <<fn, scanVars, priceVars, writeFn, writeRun, observed>>

\* fs.writeFileSync(path, text), writing: one more chunk; after the last one
\* the call returns
writeFileSyncWrite ==
    /\ writePc = "write"
    /\ disk[writePath].len < Chunks
    /\ disk' = [disk EXCEPT ![writePath].len = @ + 1]
    /\ writePc' = IF disk[writePath].len + 1 < Chunks THEN "write"
                  ELSE IF writeFn = "writeJsonAtomic" THEN "rename"
                  ELSE "done"
    /\ UNCHANGED <<fn, scanVars, priceVars, writeFn, writeRun, observed>>

\* fs.renameSync(tmp, outPath)
renameSync ==
    /\ writePc = "rename"
    /\ disk' = [disk EXCEPT !["target"] = disk["tmp"], !["tmp"] = NoFile]
    /\ writePc' = "done"
    /\ UNCHANGED <<fn, scanVars, priceVars, writeFn, writeRun, observed>>

\* the script is run again and comes to its write
nextRun ==
    /\ writePc = "done"
    /\ writeRun < MaxRuns
    /\ writeRun' = writeRun + 1
    /\ writePc' = "open"
    /\ UNCHANGED <<fn, scanVars, priceVars, disk, writeFn, observed>>

\* another process reads the target, as price.js reads data/burn.json:
\* fs.existsSync, then fs.readFileSync
readFileSync ==
    /\ observed' = observed \cup {[file |-> disk["target"], run |-> writeRun]}
    /\ UNCHANGED <<fn, scanVars, priceVars, disk, writeFn, writePc, writeRun>>

NextWrite ==
    \/ writeFileSyncOpen
    \/ writeFileSyncWrite
    \/ renameSync
    \/ nextRun
    \/ readFileSync

SpecWrite == InitWrite /\ [][NextWrite]_vars

\* what a reader found is the whole text of the previous run or of this one
WholeOldOrNew(o) ==
    o.file.exists =>
        /\ o.file.len = Chunks
        /\ o.file.gen \in {o.run - 1, o.run}

\* C12: whatever function persists the snapshot, a reader of the target
\* interleaved at any point of the write finds the whole previous content
\* or the whole new content, never an empty or partly written file.
C12_ReaderNeverSeesPartial == \A o \in observed : WholeOldOrNew(o)

\* writeJsonAtomic alone keeps that promise: the partly written text is
\* only ever under the .tmp path.
WriteJsonAtomicNeverTorn ==
    writeFn = "writeJsonAtomic" =>
        /\ \A o \in observed : WholeOldOrNew(o)
        /\ disk["target"].exists => disk["target"].len = Chunks

\* a reader met the target truncated, and met it again with part of the text
TornReadSeen ==
    /\ writeFn = "writePriceJson"
    /\ \E o \in observed : o.file.exists /\ o.file.len = 0
    /\ \E o \in observed : o.file.exists /\ o.file.len > 0 /\ o.file.len < Chunks

\* under writeJsonAtomic a reader met the old text while .tmp was partly
\* written, and the new text after the rename
AtomicOldThenNewSeen ==
    /\ writeFn = "writeJsonAtomic"
    /\ writePc = "done"
    /\ \E o \in observed : o.file.exists /\ o.file.gen = o.run - 1
    /\ \E o \in observed : o.file.exists /\ o.file.gen = o.run

====
